---------------------------- MODULE Spec2Model ----------------------------
(***************************************************************************)
(* A model of the danmaku streaming client of src/src/live/ws.rs:          *)
(* the packet codec (WsPacket, deku), the session tasks (parse_pkt,        *)
(* send_heartbeat), the fail-over supervisor (DanmakuStream::new,          *)
(* DanmakuStreamInner) and the broadcast channel the packets go out on.    *)
(*                                                                         *)
(* Time.  An Instant is opaque: the program only ever subtracts two of     *)
(* them.  The model therefore stores every Instant as its AGE, the number  *)
(* of ticks that have passed since it was read; one tick is 50 ms.         *)
(* last - old of the source is Age(old) - Age(last).                       *)
(***************************************************************************)
EXTENDS Integers, Sequences, FiniteSets, TLC

(***************************************************************************)
(* Program constants                                                       *)
(***************************************************************************)
\* Duration::from_millis(100), in ticks of 50 ms
Debounce == 2
\* Duration::from_secs(30), in ticks of 50 ms
HeartbeatPeriod == 600
\* mpsc::channel(1)
FailCap == 1
\* broadcast::channel(10)
ChannelCapacity == 10
\* hdr_len written by new_json and new_heartbeat
HdrLen == 16

(***************************************************************************)
(* Bounds of the model                                                     *)
(***************************************************************************)
\* hosts in danmaku_info.host_list
NumHosts == 2
\* inbound messages the network delivers under Spec
MaxInbound == 1
\* inbound messages the network delivers under SpecBroadcast
MaxInboundB == 10
\* inbound messages the network delivers under SpecCodec
MaxInboundC == 1
\* inner packets of a zlib container under SpecCodec
MaxInner == 2
\* failure reports counted by the supervisor's history
MaxK == 4
\* bytes in the body of a frame under SpecWire
MaxBody == 2

Min(a, b) == IF a < b THEN a ELSE b
Max(a, b) == IF a > b THEN a ELSE b

RECURSIVE Pow2(_)
Pow2(n) == IF n = 0 THEN 1 ELSE 2 * Pow2(n - 1)

Take(s, n) == SubSeq(s, 1, n)
Drop(s, n) == SubSeq(s, n + 1, Len(s))

(***************************************************************************)
(* The codec: WsPacket with its deku layout, big endian                    *)
(***************************************************************************)
ProtoVerId == [Json |-> 0, Int32BE |-> 1, ZlibBuf |-> 2, Unknown |-> 3]
ProtoVers == DOMAIN ProtoVerId
OperationId == [HeartBeat |-> 2, HeartBeatReply |-> 3, Notification |-> 5,
                Entering |-> 7, EnteringReply |-> 8]
Operations == DOMAIN OperationId

WsPacket(pkt_len, hdr_len, proto_ver, operation, seq_id, data) ==
    [pkt_len |-> pkt_len, hdr_len |-> hdr_len, proto_ver |-> proto_ver,
     operation |-> operation, seq_id |-> seq_id, data |-> data]

U16BE(n) == << (n \div 256) % 256, n % 256 >>
U32BE(n) == << (n \div Pow2(24)) % 256, (n \div Pow2(16)) % 256,
               (n \div 256) % 256, n % 256 >>
ReadU16(b, i) == b[i] * 256 + b[i + 1]
ReadU32(b, i) == b[i] * Pow2(24) + b[i + 1] * Pow2(16) + b[i + 2] * 256 + b[i + 3]

\* a writer that leaves the data out
to_bytes_Header(p) ==
    U32BE(p.pkt_len) \o U16BE(p.hdr_len) \o U16BE(ProtoVerId[p.proto_ver])
        \o U32BE(OperationId[p.operation]) \o U32BE(p.seq_id)

\* DekuContainerWrite::to_bytes: the fields as stored, in order; the
\* `update` attribute of pkt_len is applied by update() only, which nothing calls
to_bytes(p) ==
    U32BE(p.pkt_len) \o U16BE(p.hdr_len) \o U16BE(ProtoVerId[p.proto_ver])
        \o U32BE(OperationId[p.operation]) \o U32BE(p.seq_id) \o p.data

NoPkt == WsPacket(0, 0, "Json", "HeartBeat", 0, <<>>)
DekuErr == [status |-> "err", pkt |-> NoPkt, rest |-> <<>>, offset |-> 0]
DekuPanic == [status |-> "panic", pkt |-> NoPkt, rest |-> <<>>, offset |-> 0]

\* DekuContainerRead::from_bytes((bytes, offset)), called with offset 0 only:
\* every field is a whole number of bytes, so the offset it returns is 0 too.
\* The fields are read in order and the first that cannot be read is the
\* error; count = pkt_len - hdr_len is a usize subtraction, which overflows
\* when pkt_len < hdr_len (status "panic"): the build decides whether that
\* is a panic or a wrapped count, which no buffer holds.
from_bytes(bytes, offset) ==
    IF Len(bytes) < 8 THEN DekuErr
    ELSE LET pkt_len == ReadU32(bytes, 1)
             hdr_len == ReadU16(bytes, 5)
             pv      == ReadU16(bytes, 7)
         IN  IF \A v \in ProtoVers : ProtoVerId[v] # pv THEN DekuErr
             ELSE IF Len(bytes) < 12 THEN DekuErr
             ELSE LET op == ReadU32(bytes, 9)
                  IN  IF \A o \in Operations : OperationId[o] # op THEN DekuErr
                      ELSE IF Len(bytes) < 16 THEN DekuErr
                      ELSE IF pkt_len < hdr_len THEN DekuPanic
                      ELSE LET count == pkt_len - hdr_len
                           IN  IF Len(bytes) < 16 + count THEN DekuErr
                               ELSE [status |-> "ok",
                                     pkt |-> WsPacket(pkt_len, hdr_len,
                                         CHOOSE v \in ProtoVers : ProtoVerId[v] = pv,
                                         CHOOSE o \in Operations : OperationId[o] = op,
                                         ReadU32(bytes, 13),
                                         SubSeq(bytes, 17, 16 + count)),
                                     rest |-> Drop(bytes, 16 + count),
                                     offset |-> offset]

\* WsPacket::new_json
new_json(payload, operation) ==
    WsPacket(Len(payload) + 16, HdrLen, "Json", operation, 1, payload)

\* WsPacket::new_heartbeat
new_heartbeat == WsPacket(0, HdrLen, "Json", "HeartBeat", 1, <<>>)

(***************************************************************************)
(* serde_json::to_vec of an EnteringBody: the fields in declaration order  *)
(* under their serde names, as ASCII                                       *)
(***************************************************************************)
RECURSIVE Decimal(_)
Decimal(n) == IF n < 10 THEN << 48 + n >> ELSE Decimal(n \div 10) \o << 48 + (n % 10) >>

JsonString(bytes) == << 34 >> \o bytes \o << 34 >>

\* EnteringBody::default
EnteringBody_default ==
    [uid |-> 0, platform |-> << 119, 101, 98 >>, proto_ver |-> 2, room_id |-> 0,
     type |-> 2, key |-> <<>>]

\* a body that takes the room and leaves the key at its default
EnteringBody_new_NoKey(room_id, key) ==
    [EnteringBody_default EXCEPT !.room_id = room_id]

\* EnteringBody::new
EnteringBody_new(room_id, key) ==
    [EnteringBody_default EXCEPT !.room_id = room_id, !.key = key]

\* #[derive(Serialize)] for EnteringBody
EnteringBody_to_vec(b) ==
    << 123, 34, 117, 105, 100, 34, 58 >> \o Decimal(b.uid)
    \o << 44, 34, 112, 108, 97, 116, 102, 111, 114, 109, 34, 58 >> \o JsonString(b.platform)
    \o << 44, 34, 112, 114, 111, 116, 111, 118, 101, 114, 34, 58 >> \o Decimal(b.proto_ver)
    \o << 44, 34, 114, 111, 111, 109, 105, 100, 34, 58 >> \o Decimal(b.room_id)
    \o << 44, 34, 116, 121, 112, 101, 34, 58 >> \o Decimal(b.type)
    \o << 44, 34, 107, 101, 121, 34, 58 >> \o JsonString(b.key)
    \o << 125 >>

(***************************************************************************)
(* flate2's zlib: a stream is the two header bytes 0x78 0x9c, one stored   *)
(* block (its length, then its bytes) and a checksum of the plain bytes.   *)
(* The decoder rejects a bad header and a bad checksum; a stream cut short *)
(* is no error to write::ZlibDecoder::finish, which returns what it has.   *)
(***************************************************************************)
RECURSIVE Sum(_)
Sum(s) ==
    IF Len(s) = 0 THEN 0
    ELSE IF Len(s) = 1 THEN s[1]
    ELSE Sum(SubSeq(s, 1, Len(s) \div 2)) + Sum(SubSeq(s, Len(s) \div 2 + 1, Len(s)))

Checksum(plain) == (1 + Sum(plain)) % 251

ZlibCompress(plain) == << 120, 156, Len(plain) >> \o plain \o << Checksum(plain) >>

\* ZlibDecoder::new(Vec::new()); write_all(data); finish()
ZlibDecode(data) ==
    IF Len(data) < 3 THEN [ok |-> Len(data) = 0 \/ data[1] = 120, buf |-> <<>>]
    ELSE IF data[1] # 120 \/ data[2] # 156 THEN [ok |-> FALSE, buf |-> <<>>]
    ELSE LET n == data[3]
             have == Len(data) - 3
         IN  IF have <= n THEN [ok |-> TRUE, buf |-> SubSeq(data, 4, Len(data))]
             ELSE LET plain == SubSeq(data, 4, 3 + n)
                  IN  IF data[4 + n] = Checksum(plain)
                      THEN [ok |-> TRUE, buf |-> plain]
                      ELSE [ok |-> FALSE, buf |-> <<>>]

(***************************************************************************)
(* tokio::sync::broadcast.  channel(capacity) rounds the capacity up to    *)
(* the next power of two and keeps that many slots, each holding the       *)
(* position and the value last written to it; a receiver holds the         *)
(* position it reads next.                                                 *)
(***************************************************************************)
RECURSIVE NextPowerOfTwo(_)
NextPowerOfTwo(n) == IF n <= 1 THEN 1 ELSE 2 * NextPowerOfTwo((n + 1) \div 2)

\* the number of slots of broadcast::channel(10)
BufferLen == NextPowerOfTwo(ChannelCapacity)

\* broadcast::channel: slot i holds position i - len, nothing sent yet
broadcast_channel ==
    [tail |-> 0,
     buf  |-> [i \in 0 .. BufferLen - 1 |-> [pos |-> i - BufferLen, val |-> NoPkt]]]

\* Sender::send with rx_cnt receivers alive: an error without any receiver,
\* else the value goes to slot tail mod len, whatever the slot held
broadcast_send(ch, rx_cnt, pkt) ==
    IF rx_cnt = 0 THEN [ok |-> FALSE, ch |-> ch]
    ELSE [ok |-> TRUE,
          ch |-> [tail |-> ch.tail + 1,
                  buf  |-> [ch.buf EXCEPT ![ch.tail % BufferLen] =
                                [pos |-> ch.tail, val |-> pkt]]]]

\* Receiver::recv at position next: the value of its slot when the slot
\* still holds that position; nothing yet when the slot holds the position
\* one lap behind; else the receiver lagged: it is moved to the oldest
\* position kept and told how many it missed
broadcast_recv(ch, next) ==
    LET slot == ch.buf[next % BufferLen]
    IN  IF slot.pos = next
        THEN [kind |-> "pkt", pkt |-> slot.val, n |-> 0, next |-> next + 1]
        ELSE IF slot.pos + BufferLen = next
        THEN [kind |-> "empty", pkt |-> NoPkt, n |-> 0, next |-> next]
        ELSE LET oldest == ch.tail - BufferLen
                 missed == oldest - next
             IN  IF missed = 0
                 THEN [kind |-> "pkt", pkt |-> slot.val, n |-> 0, next |-> next + 1]
                 ELSE [kind |-> "lag", pkt |-> NoPkt, n |-> missed, next |-> oldest]

(***************************************************************************)
(* State                                                                   *)
(***************************************************************************)
VARIABLES
    stream,      \* the application's DanmakuStream: "none", "alive", "dropped", "err"
    room_arg,    \* the room_id DanmakuStream::new was called with
    room_info,   \* DanmakuStreamInner.room_info
    srv_index,   \* DanmakuStreamInner.srv_index
    last_failed, \* DanmakuStreamInner.last_failed: None or the age of the Instant
    writer,      \* DanmakuStreamInner.writer: None or the slot of the task
    reader,      \* DanmakuStreamInner.reader: None or the slot of the task
    sup,         \* the task running connect: new() at first, then fail_over_task
    conn,        \* the WebSocket connections, by slot: the host, the state and,
                 \* in out, the first message written, if any was
    rd,          \* the parse_pkt tasks, by slot
    wr,          \* the send_heartbeat tasks, by slot
    failCh,      \* the messages in the mpsc channel (fail_tx, fail_rx)
    sendQ,       \* the fail_tx.send calls waiting for room in the channel
    chan,        \* the broadcast channel (pkt_tx)
    rx,          \* the broadcast receivers, by subscriber
    delivered,   \* inbound messages delivered so far
    wirePkts,    \* history: the packets of the delivered messages, in wire order
    emitted,     \* history: the packets pkt_tx.send accepted, in order
    cur,         \* history: per slot, the message its reader last took, what it
                 \* sent of it and why it gave up
    rxPos,       \* history: per subscriber, the place in emitted of its last packet
    lastPushBy,  \* history: the slot of the reader that sent last
    hist,        \* history: the failure reports the supervisor has processed
    codec,       \* the codec called on its own: its input and what it returned
    host_list    \* DanmakuInfo.host_list, as get_danmaku_info answers it

supVars  == << stream, room_arg, room_info, srv_index, last_failed, writer, reader, sup >>
taskVars == << conn, rd, wr, failCh, sendQ >>
distVars == << chan, rx, rxPos >>
netVars  == << delivered, wirePkts, emitted, cur, lastPushBy >>
histVars == << hist, codec, host_list >>
vars     == << supVars, taskVars, distVars, netVars, histVars >>

\* Option::None: no slot and no age
None  == 0 - 1
Slots == {1, 2}
Subs  == {1, 2}

\* Option<Instant>::replace / Instant - Instant (saturating_duration_since)
Diff(at, old) == IF old > at THEN old - at ELSE 0

NoConn   == [host |-> 0, st |-> "closed", out |-> <<>>]
NoReader == [pc |-> "dead", buf |-> <<>>, aborted |-> FALSE]
NoWriter == [pc |-> "dead", cp |-> 0, aborted |-> FALSE]
NoRx     == [alive |-> FALSE, next |-> 0, res |-> [kind |-> "none", pkt |-> NoPkt, n |-> 0]]
NoCur    == [container |-> FALSE, expect |-> <<>>, fwd |-> <<>>, failed |-> ""]

RxCnt == Cardinality({u \in Subs : rx[u].alive})

(***************************************************************************)
(* fail_tx.send((Instant::now(), e)).await by task t: the Instant is read  *)
(* (age 0), then the message enters the channel when it has room and no    *)
(* earlier send is waiting; else the send waits its turn.                  *)
(***************************************************************************)
Report(t) == [at |-> 0, by |-> t]
CanSendNow == Len(failCh) < FailCap /\ sendQ = <<>>

RECURSIVE Without(_, _)
Without(q, ts) ==
    IF q = <<>> THEN <<>>
    ELSE IF Head(q).by \in ts THEN Without(Tail(q), ts)
    ELSE << Head(q) >> \o Without(Tail(q), ts)

\* the connections once the tasks are as in rdN and wrN: a connection both
\* of whose halves were dropped with their tasks is closed
Sweep(rdN, wrN) ==
    [s \in Slots |-> IF rdN[s].pc \in { "dead", "done" } /\ wrN[s].pc = "dead" /\ sup.pend # s
                     THEN NoConn ELSE conn[s]]

(***************************************************************************)
(* parse_pkt, the reader task of slot s                                    *)
(***************************************************************************)
ReaderTask(s) == << "reader", s >>
WriterTask(s) == << "writer", s >>

\* parse_pkt_inner returned Err(e): fail_tx.send(..).await.unwrap(); break.
\* An aborted task is dropped at the first await that is not ready at once.
ReaderFails(s) ==
    IF CanSendNow
    THEN /\ failCh' = Append(failCh, Report(ReaderTask(s)))
         /\ rd' = [rd EXCEPT ![s] = [pc |-> "done", buf |-> <<>>, aborted |-> @.aborted]]
         /\ UNCHANGED sendQ
    ELSE IF rd[s].aborted
    THEN /\ rd' = [rd EXCEPT ![s] = NoReader]
         /\ UNCHANGED << failCh, sendQ >>
    ELSE /\ sendQ' = Append(sendQ, Report(ReaderTask(s)))
         /\ rd' = [rd EXCEPT ![s] = [pc |-> "blocked", buf |-> <<>>, aborted |-> FALSE]]
         /\ UNCHANGED failCh

\* the subtraction in from_bytes overflowed and the build panics on it: the
\* task ends, nothing is reported
ReaderPanics(s) ==
    /\ rd' = [rd EXCEPT ![s] = NoReader]
    /\ UNCHANGED << failCh, sendQ >>

\* a send whose error is dropped: the reader goes on as if it had sent
ReaderSends_Swallows(s, pkt, c, then) ==
    LET r == broadcast_send(chan, RxCnt, pkt)
    IN  /\ chan' = r.ch
        /\ emitted' = IF r.ok THEN Append(emitted, pkt) ELSE emitted
        /\ lastPushBy' = IF r.ok THEN s ELSE lastPushBy
        /\ cur' = [cur EXCEPT ![s] = IF r.ok THEN [c EXCEPT !.fwd = Append(@, pkt)]
                                      ELSE [c EXCEPT !.failed = "send"]]
        /\ rd' = [rd EXCEPT ![s] = then]
        /\ UNCHANGED << failCh, sendQ >>

\* pkt_tx.send(pkt)? with `c` the history of the message at hand; `then` is
\* the reader's record when the send is accepted
ReaderSends(s, pkt, c, then) ==
    LET r == broadcast_send(chan, RxCnt, pkt)
    IN  IF r.ok
        THEN /\ chan' = r.ch
             /\ emitted' = Append(emitted, pkt)
             /\ lastPushBy' = s
             /\ cur' = [cur EXCEPT ![s] = [c EXCEPT !.fwd = Append(@, pkt)]]
             /\ rd' = [rd EXCEPT ![s] = then]
             /\ UNCHANGED << failCh, sendQ >>
        ELSE /\ ReaderFails(s)
             /\ cur' = [cur EXCEPT ![s] = [c EXCEPT !.failed = "send"]]
             /\ UNCHANGED << chan, emitted, lastPushBy >>

\* ws_reader.next().await yields Some(Ok(msg)): the outer packet is decoded
\* and either sent on, or unzipped into the buffer the inner loop walks
ReaderNext(s, m) ==
    /\ rd[s].pc = "next"
    /\ conn[s].st = "up"
    /\ delivered' = delivered + 1
    /\ wirePkts' = wirePkts \o m.pkts
    /\ LET d == from_bytes(m.bytes, 0)
           c == [container |-> m.container, expect |-> m.pkts, fwd |-> <<>>, failed |-> ""]
       IN  IF d.status = "panic"
           THEN /\ \/ /\ ReaderPanics(s)
                      /\ cur' = [cur EXCEPT ![s] = [c EXCEPT !.failed = "panic"]]
                   \/ /\ ReaderFails(s)
                      /\ cur' = [cur EXCEPT ![s] = [c EXCEPT !.failed = "decode"]]
                /\ UNCHANGED << chan, emitted, lastPushBy >>
           ELSE IF d.status = "err"
           THEN /\ ReaderFails(s)
                /\ cur' = [cur EXCEPT ![s] = [c EXCEPT !.failed = "decode"]]
                /\ UNCHANGED << chan, emitted, lastPushBy >>
           ELSE IF d.pkt.proto_ver # "ZlibBuf"
           THEN ReaderSends(s, d.pkt, c, rd[s])
           ELSE LET z == ZlibDecode(d.pkt.data)
                IN  IF z.ok
                    THEN /\ rd' = [rd EXCEPT ![s] = [@ EXCEPT !.pc = "inner", !.buf = z.buf]]
                         /\ cur' = [cur EXCEPT ![s] = c]
                         /\ UNCHANGED << failCh, sendQ, chan, emitted, lastPushBy >>
                    ELSE /\ ReaderFails(s)
                         /\ cur' = [cur EXCEPT ![s] = [c EXCEPT !.failed = "zlib"]]
                         /\ UNCHANGED << chan, emitted, lastPushBy >>
    /\ conn' = Sweep(rd', wr)
    /\ UNCHANGED << supVars, wr, rx, rxPos, histVars >>

\* a loop that leaves after its first packet
ReaderInner_OnePacket(s) ==
    /\ rd[s].pc = "inner"
    /\ LET d == from_bytes(rd[s].buf, 0)
       IN  /\ d.status = "ok"
           /\ ReaderSends(s, d.pkt, cur[s], [rd[s] EXCEPT !.pc = "next", !.buf = <<>>])
    /\ conn' = Sweep(rd', wr)
    /\ UNCHANGED << supVars, wr, rx, rxPos, delivered, wirePkts, histVars >>

\* one turn of the loop over the unzipped buffer: from_bytes((bytes, offset))?,
\* pkt_tx.send(pkt)?, break when nothing remains.  The loop holds no await:
\* an abort of the task does not stop it.
ReaderInner(s) ==
    /\ rd[s].pc = "inner"
    /\ LET d == from_bytes(rd[s].buf, 0)
       IN  IF d.status = "panic"
           THEN /\ \/ /\ ReaderPanics(s)
                      /\ cur' = [cur EXCEPT ![s].failed = "panic"]
                   \/ /\ ReaderFails(s)
                      /\ cur' = [cur EXCEPT ![s].failed = "decode"]
                /\ UNCHANGED << chan, emitted, lastPushBy >>
           ELSE IF d.status = "err"
           THEN /\ ReaderFails(s)
                /\ cur' = [cur EXCEPT ![s].failed = "decode"]
                /\ UNCHANGED << chan, emitted, lastPushBy >>
           ELSE ReaderSends(s, d.pkt, cur[s],
                    IF d.rest # <<>> THEN [rd[s] EXCEPT !.buf = d.rest]
                    ELSE IF rd[s].aborted THEN NoReader
                    ELSE [rd[s] EXCEPT !.pc = "next", !.buf = <<>>])
    /\ conn' = Sweep(rd', wr)
    /\ UNCHANGED << supVars, wr, rx, rxPos, delivered, wirePkts, histVars >>

\* ws_reader.next().await yields Some(Err(e)) on a connection that failed
ReaderErr(s) ==
    /\ rd[s].pc = "next"
    /\ conn[s].st = "error"
    /\ ReaderFails(s)
    /\ conn' = Sweep(rd', wr)
    /\ UNCHANGED << supVars, wr, distVars, netVars, histVars >>

\* ws_reader.next().await yields None on a connection that was closed:
\* parse_pkt_inner returns Ok(()) and the loop asks again
ReaderEnd(s) ==
    /\ rd[s].pc = "next"
    /\ conn[s].st = "ended"
    /\ UNCHANGED vars

(***************************************************************************)
(* The subscribers: DanmakuStream::subscribe, Receiver::recv, drop         *)
(***************************************************************************)
\* a subscribe that hands out a receiver at the start of the channel
Subscribe_FromStart(u) ==
    /\ stream = "alive"
    /\ ~rx[u].alive
    /\ rx' = [rx EXCEPT ![u] = [NoRx EXCEPT !.alive = TRUE, !.next = 0]]
    /\ rxPos' = [rxPos EXCEPT ![u] = Len(emitted)]
    /\ UNCHANGED << supVars, taskVars, chan, netVars, histVars >>

\* DanmakuStream::subscribe: pkt_tx.subscribe(), a receiver at the tail
Subscribe(u) ==
    /\ stream = "alive"
    /\ ~rx[u].alive
    /\ rx' = [rx EXCEPT ![u] = [NoRx EXCEPT !.alive = TRUE, !.next = chan.tail]]
    /\ rxPos' = [rxPos EXCEPT ![u] = Len(emitted)]
    /\ UNCHANGED << supVars, taskVars, chan, netVars, histVars >>

\* the place of a packet in what was sent (0: it never was)
PosOf(pkt) ==
    IF \E j \in 1 .. Len(emitted) : emitted[j] = pkt
    THEN CHOOSE j \in 1 .. Len(emitted) : emitted[j] = pkt
    ELSE 0

\* Receiver::recv().await: waits while there is nothing to read
Recv(u) ==
    /\ rx[u].alive
    /\ LET r == broadcast_recv(chan, rx[u].next)
       IN  /\ r.kind # "empty"
           /\ rx' = [rx EXCEPT ![u] = [alive |-> TRUE, next |-> r.next,
                                       res |-> [kind |-> r.kind, pkt |-> r.pkt, n |-> r.n]]]
           /\ rxPos' = [rxPos EXCEPT ![u] = IF r.kind = "pkt" THEN PosOf(r.pkt) ELSE @]
    /\ UNCHANGED << supVars, taskVars, chan, netVars, histVars >>

\* the application drops a Receiver
DropRx(u) ==
    /\ rx[u].alive
    /\ rx' = [rx EXCEPT ![u] = NoRx]
    /\ rxPos' = [rxPos EXCEPT ![u] = 0]
    /\ UNCHANGED << supVars, taskVars, chan, netVars, histVars >>

(***************************************************************************)
(* Inbound messages                                                        *)
(***************************************************************************)
Packet(proto_ver, operation, seq_id, data) ==
    WsPacket(HdrLen + Len(data), HdrLen, proto_ver, operation, seq_id, data)

\* a message holding one packet that is no container
PlainMsg(p) == [bytes |-> to_bytes(p), pkts |-> << p >>, container |-> FALSE]

ContainerOf(plain) == Packet("ZlibBuf", "Notification", 0, ZlibCompress(plain))

RECURSIVE BytesOf(_)
BytesOf(ps) == IF ps = <<>> THEN <<>> ELSE to_bytes(Head(ps)) \o BytesOf(Tail(ps))

\* a message holding one ZlibBuf packet whose plain bytes are the packets ps
ZlibMsg(ps) ==
    [bytes |-> to_bytes(ContainerOf(BytesOf(ps))), pkts |-> ps, container |-> TRUE]

\* a message that is not what the reader expects
BadMsg(bytes) == [bytes |-> bytes, pkts |-> <<>>, container |-> FALSE]

\* a ZlibBuf message whose plain bytes are the packets ps and then bytes that
\* are no packet
PartMsg(ps, junk) ==
    [bytes |-> to_bytes(ContainerOf(BytesOf(ps) \o junk)), pkts |-> ps, container |-> FALSE]

\* a frame whose pkt_len is less than its hdr_len
ShortLen == to_bytes(WsPacket(15, HdrLen, "Json", "Notification", 0, <<>>))

NotifA == Packet("Json", "Notification", 0, << 123, 125, 32, 10 >>)
NotifB == Packet("Json", "Notification", 1, << 91, 93, 32, 10 >>)
Popularity == Packet("Int32BE", "HeartBeatReply", 1, << 0, 0, 39, 16 >>)
EmptyUnknown == Packet("Unknown", "EnteringReply", 0, <<>>)
InnerZlib == ContainerOf(to_bytes(NotifB))

InnerPkts == { NotifA, EmptyUnknown, InnerZlib }

SeqsUpTo(S, n) == UNION { [1 .. k -> S] : k \in 1 .. n }

\* what the network may deliver under SpecCodec
CodecInbound ==
    { ZlibMsg(ps) : ps \in SeqsUpTo(InnerPkts, MaxInner) }
        \cup { PlainMsg(p) : p \in { NotifA, Popularity, EmptyUnknown } }
        \cup { PartMsg(<< NotifA >>, Take(to_bytes(NotifB), 18)),
               PartMsg(<< NotifA >>, ShortLen),
               BadMsg(to_bytes(Packet("ZlibBuf", "Notification", 0, << 120, 156, 1, 7, 0 >>))),
               BadMsg(Take(to_bytes(NotifA), 18)),
               BadMsg(ShortLen) }

(***************************************************************************)
(* Initial states                                                          *)
(***************************************************************************)
RoomIds == { 3 }

\* room_init: the room of short id 3 is room 12
room_init(room_id) ==
    IF room_id \in { 3, 12 } THEN [room_id |-> 12, short_id |-> 3]
    ELSE [room_id |-> room_id, short_id |-> 0]

\* get_danmaku_info(..).token
Token == << 116, 107 >>

\* the Entering packet connect writes
EnteringBytes(room) ==
    to_bytes(new_json(EnteringBody_to_vec(EnteringBody_new(room.room_id, Token)), "Entering"))

NoHist == [k |-> 0, spaced |-> TRUE, scen |-> 0]

\* a host_list of n hosts, each known by its place in the list
HostList(n) == [i \in 1 .. n |-> i - 1]

\* the codec not called
NoCodec == [pc |-> "idle", in |-> <<>>, dec |-> DekuErr, pkt |-> NoPkt, out |-> <<>>]

\* no stream yet: every field as DanmakuStream::new finds it
NotOpened ==
    /\ stream = "none"
    /\ room_arg = 0
    /\ room_info = [room_id |-> 0, short_id |-> 0]
    /\ srv_index = 0
    /\ last_failed = None
    /\ writer = None
    /\ reader = None
    /\ sup = [pc |-> "off", boot |-> TRUE, pend |-> 0]
    /\ conn = [s \in Slots |-> NoConn]
    /\ rd = [s \in Slots |-> NoReader]
    /\ wr = [s \in Slots |-> NoWriter]
    /\ failCh = <<>>
    /\ sendQ = <<>>
    /\ chan = broadcast_channel
    /\ rx = [u \in Subs |-> NoRx]
    /\ rxPos = [u \in Subs |-> 0]
    /\ delivered = 0
    /\ wirePkts = <<>>
    /\ emitted = <<>>
    /\ cur = [s \in Slots |-> NoCur]
    /\ lastPushBy = 0
    /\ hist = NoHist

\* before DanmakuStream::new
InitNone == NotOpened /\ codec = NoCodec /\ host_list = HostList(NumHosts)

\* after DanmakuStream::new(room) returned Ok: the session of slot 1 on host 0
Opened(room) ==
    /\ stream = "alive"
    /\ room_arg = room
    /\ room_info = room_init(room)
    /\ srv_index = 0
    /\ last_failed = None
    /\ writer = 1
    /\ reader = 1
    /\ sup = [pc |-> "idle", boot |-> FALSE, pend |-> 0]
    /\ conn = [s \in Slots |-> IF s = 1
                 THEN [host |-> 0, st |-> "up", out |-> << EnteringBytes(room_init(room)) >>]
                 ELSE NoConn]
    /\ rd = [s \in Slots |-> IF s = 1 THEN [NoReader EXCEPT !.pc = "next"] ELSE NoReader]
    /\ wr = [s \in Slots |-> IF s = 1 THEN [NoWriter EXCEPT !.pc = "run"] ELSE NoWriter]
    /\ failCh = <<>>
    /\ sendQ = <<>>
    /\ chan = broadcast_channel
    /\ rx = [u \in Subs |-> IF u = 1 THEN [NoRx EXCEPT !.alive = TRUE] ELSE NoRx]
    /\ rxPos = [u \in Subs |-> 0]
    /\ delivered = 0
    /\ wirePkts = <<>>
    /\ emitted = <<>>
    /\ cur = [s \in Slots |-> NoCur]
    /\ lastPushBy = 0
    /\ hist = NoHist

InitOpen(room) == Opened(room) /\ codec = NoCodec /\ host_list = HostList(NumHosts)

\* a slot no task and no connection attempt uses
Free(s) == rd[s].pc \in { "dead", "done" } /\ wr[s].pc = "dead" /\ sup.pend # s

\* the connection of a running session breaks: "error", reads and writes
\* fail from now on; "ended", the peer closed, reads yield None, writes fail
Break(s, kind) ==
    /\ conn[s].st = "up"
    /\ ~Free(s)
    /\ sup.pend # s
    /\ conn' = [conn EXCEPT ![s].st = kind]
    /\ UNCHANGED << supVars, rd, wr, failCh, sendQ, distVars, netVars, histVars >>

(***************************************************************************)
(* SpecCodec: one session's reader taking messages of every shape, with    *)
(* subscribers that come and go and a connection that may break            *)
(***************************************************************************)
CodecDeliver == \E m \in CodecInbound : delivered < MaxInboundC /\ ReaderNext(1, m)
CodecInner == ReaderInner(1)
CodecSubscribe == \E u \in Subs : Subscribe(u)
CodecDropRx == \E u \in Subs : DropRx(u)
CodecBreak == Break(1, "error")
CodecReadErr == ReaderErr(1)

InitCodec == InitOpen(12)
NextCodec ==
    \/ CodecDeliver \/ CodecInner \/ CodecSubscribe \/ CodecDropRx
    \/ CodecBreak \/ CodecReadErr
SpecCodec == InitCodec /\ [][NextCodec]_vars

IsPrefix(a, b) == Len(a) <= Len(b) /\ a = Take(b, Len(a))

\* C8 as claimed: whenever a reader is through with a well-formed container,
\* it has sent exactly the container's packets, in order, and reported nothing
C8_AsClaimed ==
    \A s \in Slots : cur[s].container /\ rd[s].pc # "inner" =>
        cur[s].fwd = cur[s].expect /\ cur[s].failed = ""

\* C8, amended: of a well-formed container the reader sends the inner packets
\* in order, each once and as it is (a ZlibBuf one too), and nothing else;
\* it sends them all and reports nothing unless a send finds no receiver
\* alive, the only reason the reader gives up on such a message
C8_Unwrap ==
    /\ [](\A s \in Slots : cur[s].container =>
            /\ IsPrefix(cur[s].fwd, cur[s].expect)
            /\ cur[s].failed \in { "", "send" }
            /\ (rd[s].pc # "inner" /\ cur[s].failed = "" => cur[s].fwd = cur[s].expect)
            /\ (rd[s].pc = "inner" => rd[s].buf = BytesOf(Drop(cur[s].expect, Len(cur[s].fwd)))))
    /\ [][\A s \in Slots : cur[s].failed = "" /\ cur'[s].failed = "send" => RxCnt = 0]_vars

\* a container of two packets, one of them ZlibBuf itself, sent on whole
C8_Witness ==
    /\ cur[1].container /\ rd[1].pc = "next" /\ cur[1].failed = ""
    /\ Len(cur[1].expect) = 2 /\ cur[1].fwd = cur[1].expect
    /\ cur[1].expect[1].proto_ver = "ZlibBuf"
    /\ emitted = cur[1].expect

(***************************************************************************)
(* SpecBroadcast: one session's reader feeding the broadcast channel while *)
(* subscribers subscribe, receive and leave.  The n-th packet on the wire  *)
(* carries seq_id n, alone in its message or as one of a container's two.  *)
(***************************************************************************)
SeqPkt(n) == Packet("Json", "Notification", n, << 123, 125 >>)
SeqInbound == { PlainMsg(SeqPkt(Len(wirePkts))),
                ZlibMsg(<< SeqPkt(Len(wirePkts)), SeqPkt(Len(wirePkts) + 1) >>) }

BcastDeliver == \E m \in SeqInbound : delivered < MaxInboundB /\ ReaderNext(1, m)
BcastInner == ReaderInner(1)
BcastSubscribe == \E u \in Subs : Subscribe(u)
BcastRecv == \E u \in Subs : Recv(u)
BcastDropRx == \E u \in Subs : DropRx(u)

InitBroadcast == InitOpen(12)
NextBroadcast == BcastDeliver \/ BcastInner \/ BcastSubscribe \/ BcastRecv \/ BcastDropRx
SpecBroadcast == InitBroadcast /\ [][NextBroadcast]_vars

\* a step in which subscriber u's recv returned
RecvStep(u) == rx[u].alive /\ rx'[u].alive /\ rx'[u].next # rx[u].next

\* C6 as claimed: a receiver that finds n > 10 packets sent since it last
\* received is told Lagged(n - 10)
C6_AsClaimed ==
    [][\A u \in Subs :
         RecvStep(u) /\ chan.tail - rx[u].next > ChannelCapacity =>
            /\ rx'[u].res.kind = "lag"
            /\ rx'[u].res.n = chan.tail - rx[u].next - ChannelCapacity]_vars

\* C7: what a subscriber receives is in the order the reader sent it, which
\* is the order on the wire and inside each container; it receives nothing
\* sent before it subscribed, and skips a packet only after a Lagged.
C7_Order ==
    /\ [](IsPrefix(emitted, wirePkts))
    /\ [][\A u \in Subs :
            RecvStep(u) /\ rx'[u].res.kind = "pkt" =>
               \E j \in 1 .. Len(emitted) :
                  /\ emitted[j] = rx'[u].res.pkt
                  /\ j > rxPos[u]
                  /\ (j > rxPos[u] + 1 => rx[u].res.kind = "lag")]_vars

\* one subscriber was told it lagged; another, who subscribed after packets
\* had been sent, holds the packet sent last, one of a container
C7_Witness ==
    /\ rx[1].alive /\ rx[1].res.kind = "lag"
    /\ rx[2].alive /\ rx[2].res.kind = "pkt" /\ rxPos[2] = Len(emitted)
    /\ rx[2].next > 2
    /\ cur[1].container /\ cur[1].fwd = cur[1].expect

(***************************************************************************)
(* The supervisor: DanmakuStream::new, the fail_over_task loop, fail_over, *)
(* connect and terminate                                                   *)
(***************************************************************************)
\* the application calls DanmakuStream::new(room): room_init and
\* get_danmaku_info answer, the channels are made (pkt_rx is the first
\* receiver) and connect begins
New(room) ==
    /\ stream = "none"
    /\ stream' = "new"
    /\ room_arg' = room
    /\ room_info' = room_init(room)
    /\ sup' = [pc |-> "dial", boot |-> TRUE, pend |-> 0]
    /\ rx' = [rx EXCEPT ![1] = [NoRx EXCEPT !.alive = TRUE]]
    /\ UNCHANGED << srv_index, last_failed, writer, reader, taskVars, chan, rxPos,
                    netVars, histVars >>

\* room_init(room_id).await? or get_danmaku_info(..).await? is an error
NewErr ==
    /\ stream = "none"
    /\ stream' = "err"
    /\ UNCHANGED << room_arg, room_info, srv_index, last_failed, writer, reader, sup,
                    taskVars, distVars, netVars, histVars >>

\* fail_over: self.srv_index = (self.srv_index + 1) % host_list.len()
fail_over_index_Stay(i) == i
\* a rotation by two places
fail_over_index_Twice(i) == (i + 2) % Len(host_list)
fail_over_index(i) == (i + 1) % Len(host_list)

\* the gate of the loop: Some(old) and last_failed - old > 100 ms
Gate_Always(old, at) == old # None
Gate(old, at) == old # None /\ Diff(at, old) > Debounce

\* what the history makes of a report that came `d` after the one before it
\* (first: there was none before it)
Seen(first, d) ==
    [k      |-> Min(hist.k + 1, MaxK + 1),
     spaced |-> hist.spaced /\ (first \/ d > Debounce),
     scen   |-> IF hist.scen = 0 /\ first THEN 1
                ELSE IF hist.scen = 1 /\ d = 1 THEN 2
                ELSE IF hist.scen = 2 /\ d = Debounce + 1 THEN 3
                ELSE 4]

\* one turn of the fail_over_task loop up to the first await of connect:
\* fail_rx.recv() yields a report, last_failed.replace(..), and past the
\* gate fail_over rotates srv_index and calls connect
SupTurn ==
    /\ sup.pc = "idle"
    /\ failCh # <<>>
    /\ LET rep == Head(failCh)
           old == last_failed
       IN  /\ failCh' = Tail(failCh)
           /\ last_failed' = rep.at
           /\ IF Gate(old, rep.at)
              THEN /\ srv_index' = fail_over_index(srv_index)
                   /\ sup' = [pc |-> "dial", boot |-> FALSE, pend |-> 0]
              ELSE UNCHANGED << srv_index, sup >>
    /\ UNCHANGED << stream, room_arg, room_info, writer, reader, conn, rd, wr, sendQ,
                    distVars, netVars >>

\* the turn, its report entered in the history
SupRecvSeen ==
    /\ SupTurn
    /\ hist' = Seen(last_failed = None,
                    IF last_failed = None THEN 0 ELSE Diff(Head(failCh).at, last_failed))
    /\ UNCHANGED << codec, host_list >>

\* the turn, the history left alone
SupRecv ==
    /\ SupTurn
    /\ UNCHANGED histVars

\* get_url: the host at srv_index
get_url == host_list[srv_index + 1]

\* connect_async(&url).await is Ok: the connection is open
DialOk ==
    /\ sup.pc = "dial"
    /\ \E s \in Slots :
         /\ Free(s) /\ \A t \in Slots : Free(t) => s <= t
         /\ conn' = [conn EXCEPT ![s] = [host |-> get_url, st |-> "up", out |-> <<>>]]
         /\ sup' = [sup EXCEPT !.pc = "enter", !.pend = s]
    /\ UNCHANGED << stream, room_arg, room_info, srv_index, last_failed, writer, reader,
                    rd, wr, failCh, sendQ, distVars, netVars, histVars >>

\* connect returned Err(e): new() returns it and all it made is dropped; the
\* fail_over_task logs it and goes on to the next report
ConnectErr ==
    /\ IF sup.boot
       THEN /\ stream' = "err"
            /\ sup' = [pc |-> "off", boot |-> TRUE, pend |-> 0]
            /\ rx' = [u \in Subs |-> NoRx]
       ELSE /\ sup' = [pc |-> "idle", boot |-> FALSE, pend |-> 0]
            /\ UNCHANGED << stream, rx >>

\* a connect that stops the running tasks when it fails
DialFail_Terminates ==
    /\ sup.pc = "dial"
    /\ ConnectErr
    /\ rd' = [s \in Slots |-> NoReader]
    /\ wr' = [s \in Slots |-> NoWriter]
    /\ sendQ' = <<>>
    /\ UNCHANGED << room_arg, room_info, srv_index, last_failed, writer, reader, conn,
                    failCh, chan, rxPos, netVars, histVars >>

\* connect_async(&url).await? is an error
DialFail ==
    /\ sup.pc = "dial"
    /\ ConnectErr
    /\ UNCHANGED << room_arg, room_info, srv_index, last_failed, writer, reader, taskVars,
                    chan, rxPos, netVars, histVars >>

\* ws_writer.send(..).await? or ws_writer.flush().await? is an error: the
\* connection is dropped with the stream
EnterFail ==
    /\ sup.pc = "enter"
    /\ ConnectErr
    /\ conn' = [conn EXCEPT ![sup.pend] = NoConn]
    /\ UNCHANGED << room_arg, room_info, srv_index, last_failed, writer, reader, rd, wr,
                    failCh, sendQ, chan, rxPos, netVars, histVars >>

\* JoinHandle::abort on the reader of slot r: a task waiting at an await is
\* dropped there; a task inside the inner loop runs on to its next await; a
\* task that has returned is not touched
AbortReader(r) ==
    IF rd[r].pc = "inner" THEN [rd[r] EXCEPT !.aborted = TRUE]
    ELSE IF rd[r].pc \in { "next", "blocked" } THEN NoReader
    ELSE rd[r]

\* the tasks terminate() drops while they wait
Dropped(w, r) ==
    (IF w # None THEN { WriterTask(w) } ELSE {})
        \cup (IF r # None /\ rd[r].pc \in { "next", "blocked" } THEN { ReaderTask(r) } ELSE {})

\* the rest of connect once the connection is open: the Entering packet is
\* written and flushed, terminate() aborts the tasks held, a writer and a
\* reader are spawned on the new connection and their handles kept
EnterOk ==
    /\ sup.pc = "enter"
    /\ LET s == sup.pend
           w == writer
           r == reader
       IN  /\ wr' = [t \in Slots |-> IF t = s THEN [NoWriter EXCEPT !.pc = "run"]
                                     ELSE IF t = w THEN NoWriter ELSE wr[t]]
           /\ rd' = [t \in Slots |-> IF t = s THEN [NoReader EXCEPT !.pc = "next"]
                                     ELSE IF t = r THEN AbortReader(r) ELSE rd[t]]
           /\ conn' = [Sweep(rd', wr') EXCEPT ![s] =
                            [conn[s] EXCEPT !.out = << EnteringBytes(room_info) >>]]
           /\ sendQ' = Without(sendQ, Dropped(w, r))
           /\ cur' = [cur EXCEPT ![s] = NoCur]
           /\ writer' = s
           /\ reader' = s
    /\ sup' = [pc |-> "idle", boot |-> FALSE, pend |-> 0]
    /\ stream' = IF sup.boot THEN "alive" ELSE stream
    /\ UNCHANGED << room_arg, room_info, srv_index, last_failed, failCh, distVars,
                    delivered, wirePkts, emitted, lastPushBy, histVars >>

(***************************************************************************)
(* send_heartbeat, the writer task of slot s                               *)
(***************************************************************************)
\* a writer that returns after a heartbeat that failed
WriterBeat_ExitsOnFailure(s) ==
    /\ wr[s].pc = "run" \/ (wr[s].pc = "sleep" /\ wr[s].cp >= HeartbeatPeriod)
    /\ IF conn[s].st = "up"
       THEN /\ conn' = [conn EXCEPT ![s].out =
                            IF @ = <<>> THEN << to_bytes(new_heartbeat) >> ELSE @]
            /\ wr' = [wr EXCEPT ![s] = [NoWriter EXCEPT !.pc = "sleep"]]
            /\ UNCHANGED << failCh, sendQ >>
       ELSE /\ CanSendNow
            /\ failCh' = Append(failCh, Report(WriterTask(s)))
            /\ wr' = [wr EXCEPT ![s] = NoWriter]
            /\ UNCHANGED << conn, sendQ >>
    /\ UNCHANGED << supVars, rd, distVars, netVars, histVars >>

\* one turn of the loop, entered when the task starts and when sleep_until
\* (checkpoint + 30 s) is over: checkpoint = Instant::now(), the heartbeat is
\* written and flushed, and when that fails the failure is reported; then
\* the task sleeps, whatever happened
WriterBeat(s) ==
    /\ wr[s].pc = "run" \/ (wr[s].pc = "sleep" /\ wr[s].cp >= HeartbeatPeriod)
    /\ IF conn[s].st = "up"
       THEN /\ conn' = [conn EXCEPT ![s].out =
                            IF @ = <<>> THEN << to_bytes(new_heartbeat) >> ELSE @]
            /\ wr' = [wr EXCEPT ![s] = [NoWriter EXCEPT !.pc = "sleep"]]
            /\ UNCHANGED << failCh, sendQ >>
       ELSE IF CanSendNow
       THEN /\ failCh' = Append(failCh, Report(WriterTask(s)))
            /\ wr' = [wr EXCEPT ![s] = [NoWriter EXCEPT !.pc = "sleep"]]
            /\ UNCHANGED << conn, sendQ >>
       ELSE /\ sendQ' = Append(sendQ, Report(WriterTask(s)))
            /\ wr' = [wr EXCEPT ![s] = [NoWriter EXCEPT !.pc = "blocked"]]
            /\ UNCHANGED << conn, failCh >>
    /\ UNCHANGED << supVars, rd, distVars, netVars, histVars >>

\* a channel that lets a waiting send in only while a slot besides the last
\* is free
Unblock_Stuck ==
    /\ sendQ # <<>>
    /\ Len(failCh) < FailCap - 1
    /\ failCh' = Append(failCh, Head(sendQ))
    /\ sendQ' = Tail(sendQ)
    /\ LET t == Head(sendQ).by
       IN  IF t[1] = "reader"
           THEN /\ rd' = [rd EXCEPT ![t[2]].pc = "done"]
                /\ UNCHANGED wr
           ELSE /\ wr' = [wr EXCEPT ![t[2]].pc = "sleep"]
                /\ UNCHANGED rd
    /\ conn' = Sweep(rd', wr')
    /\ UNCHANGED << supVars, distVars, netVars, histVars >>

\* the channel has room again: the send that waited longest goes through and
\* its task goes on, the reader to its break, the writer to its sleep
Unblock ==
    /\ sendQ # <<>>
    /\ Len(failCh) < FailCap
    /\ failCh' = Append(failCh, Head(sendQ))
    /\ sendQ' = Tail(sendQ)
    /\ LET t == Head(sendQ).by
       IN  IF t[1] = "reader"
           THEN /\ rd' = [rd EXCEPT ![t[2]].pc = "done"]
                /\ UNCHANGED wr
           ELSE /\ wr' = [wr EXCEPT ![t[2]].pc = "sleep"]
                /\ UNCHANGED rd
    /\ conn' = Sweep(rd', wr')
    /\ UNCHANGED << supVars, distVars, netVars, histVars >>

(***************************************************************************)
(* The network, the application and time                                   *)
(***************************************************************************)
\* the application drops its DanmakuStream.  The struct has no Drop: its
\* fields are dropped, which detaches fail_over_task (a JoinHandle dropped
\* is not an abort) and gives up one Arc of inner and one clone of pkt_tx;
\* the task holds the other Arc, and inner holds the handles, fail_tx and a
\* pkt_tx
DropHandle ==
    /\ stream = "alive"
    /\ stream' = "dropped"
    /\ UNCHANGED << room_arg, room_info, srv_index, last_failed, writer, reader, sup,
                    taskVars, distVars, netVars, histVars >>

\* the Instants some comparison may still be made with: last_failed and
\* those of the reports under way, oldest first
Instants ==
    (IF last_failed = None THEN <<>> ELSE << last_failed >>)
        \o [i \in 1 .. Len(failCh) |-> failCh[i].at]
        \o [i \in 1 .. Len(sendQ) |-> sendQ[i].at]

\* by how much d ticks age them: past Debounce the latest one is as old as
\* it needs to be for every comparison to come
Shift(d) ==
    IF Instants = <<>> THEN 0
    ELSE Max(0, Min(d, Debounce + 1 - Instants[Len(Instants)]))

Asleep(s) == wr[s].pc \in { "sleep", "blocked" }

\* d ticks pass
Advance(d) ==
    /\ last_failed' = IF last_failed = None THEN None ELSE last_failed + Shift(d)
    /\ failCh' = [i \in 1 .. Len(failCh) |-> [failCh[i] EXCEPT !.at = @ + Shift(d)]]
    /\ sendQ' = [i \in 1 .. Len(sendQ) |-> [sendQ[i] EXCEPT !.at = @ + Shift(d)]]
    /\ wr' = [s \in Slots |-> IF Asleep(s)
                              THEN [wr[s] EXCEPT !.cp = Min(@ + d, HeartbeatPeriod)]
                              ELSE wr[s]]
    /\ UNCHANGED << stream, room_arg, room_info, srv_index, writer, reader, sup, conn, rd,
                    distVars, netVars, histVars >>

\* one tick passes, while the age of the latest Instant can still matter
Tick ==
    /\ Shift(1) > 0
    /\ Advance(1)

\* a while longer than the gate of the supervisor passes, once
Pause ==
    /\ Shift(Debounce + 1) > 0
    /\ Advance(Debounce + 1)

\* a long time passes: up to the wake of a sleeping writer
Jump ==
    \E s \in Slots :
        /\ Asleep(s)
        /\ wr[s].cp < HeartbeatPeriod
        /\ Advance(HeartbeatPeriod - wr[s].cp)

(***************************************************************************)
(* Spec: the whole client, from DanmakuStream::new on                      *)
(***************************************************************************)
\* what the network may deliver under Spec
Inbound == { ZlibMsg(<< NotifA, NotifB >>) }

Deliver == \E s \in Slots, m \in Inbound : delivered < MaxInbound /\ ReaderNext(s, m)
Inner == \E s \in Slots : ReaderInner(s)
ReadErr == \E s \in Slots : ReaderErr(s)
Beat == \E s \in Slots : WriterBeat(s)
Breaks == \E s \in Slots : Break(s, "error")
AppNew == \E room \in RoomIds : New(room)

Init == InitNone
Next ==
    \/ AppNew \/ NewErr
    \/ SupRecv \/ DialOk \/ DialFail \/ EnterOk \/ EnterFail
    \/ Beat \/ Unblock \/ Deliver \/ Inner \/ ReadErr
    \/ Breaks \/ Jump
Spec == Init /\ [][Next]_vars

\* C3 as claimed: when a fail-over's connect is over, failed or not, the
\* tasks that ran before it have been stopped
C3_AsClaimed ==
    [][sup.pc \in { "dial", "enter" } /\ ~sup.boot /\ sup'.pc = "idle" =>
          /\ wr'[writer].pc = "dead"
          /\ rd'[reader].pc \in { "dead", "done" }]_vars

\* C3, amended: a fail-over first rotates srv_index, then opens a connection
\* to the host at srv_index and writes the Entering packet on it, all the
\* while leaving the running tasks alone; only when that has succeeded does
\* it abort the tasks held and spawn a writer and a reader on the new
\* connection.  A fail-over whose connect fails leaves the old tasks, the
\* handles and the rotated srv_index as they are.
C3_Order ==
    [][/\ sup.pc = "idle" /\ sup'.pc = "dial" =>
            /\ srv_index' = (srv_index + 1) % NumHosts
            /\ UNCHANGED << writer, reader, rd, wr >>
       /\ sup.pc = "dial" /\ sup'.pc = "enter" =>
            /\ conn'[sup'.pend].host = srv_index
            /\ conn'[sup'.pend].st = "up"
            /\ UNCHANGED << writer, reader, rd, wr, srv_index >>
       /\ sup.pc = "enter" /\ ~sup.boot /\ sup'.pc = "idle" /\ conn'[sup.pend].out # <<>> =>
            /\ writer' = sup.pend /\ reader' = sup.pend
            /\ wr'[sup.pend].pc = "run" /\ rd'[sup.pend].pc = "next"
            /\ wr'[writer].pc = "dead"
            /\ rd'[reader].pc \in { "dead", "done" } \/ rd'[reader].aborted
            /\ srv_index' = srv_index
       /\ /\ ~sup.boot /\ sup'.pc = "idle"
          /\ sup.pc = "dial" \/ (sup.pc = "enter" /\ conn'[sup.pend].out = <<>>)
          => UNCHANGED << writer, reader, rd, wr, srv_index >>]_vars

\* a fail-over went to host 1 and failed: the writer of the first session,
\* whose connection is broken, still runs and is still the one held
C3_Witness ==
    /\ sup.pc = "idle" /\ srv_index = 1 /\ writer = 1 /\ reader = 1
    /\ wr[1].pc \in { "sleep", "blocked" }
    /\ conn[1].st = "error"

\* C4 as claimed: once terminate() has aborted a reader, that reader sends
\* no packet to the broadcast channel any more
C4_AsClaimed ==
    [][\A s \in Slots :
          rd[s].aborted => ~(Len(emitted') > Len(emitted) /\ lastPushBy' = s)]_vars

\* the body serde_json writes for room `room_id` and the token
EnteringJson(room_id) ==
    << 123, 34, 117, 105, 100, 34, 58, 48, 44,
       34, 112, 108, 97, 116, 102, 111, 114, 109, 34, 58, 34, 119, 101, 98, 34, 44,
       34, 112, 114, 111, 116, 111, 118, 101, 114, 34, 58, 50, 44,
       34, 114, 111, 111, 109, 105, 100, 34, 58 >> \o Decimal(room_id)
    \o << 44, 34, 116, 121, 112, 101, 34, 58, 50, 44, 34, 107, 101, 121, 34, 58, 34 >>
    \o Token \o << 34, 125 >>

\* C9: the first message written on every connection is one Entering packet
\* (operation 7, protoVer Json, seqId 1) whose body is the JSON object with
\* uid 0, platform "web", protover 2, the canonical room id, type 2 and the
\* token as key; a writer runs on a connection only after that message
C9_EnteringFirst ==
    \A s \in Slots :
        /\ conn[s].out # <<>> =>
              LET d == from_bytes(conn[s].out[1], 0)
              IN  /\ d.status = "ok" /\ d.rest = <<>>
                  /\ d.pkt.operation = "Entering" /\ d.pkt.proto_ver = "Json"
                  /\ d.pkt.seq_id = 1 /\ d.pkt.hdr_len = 16
                  /\ d.pkt.data = EnteringJson(IF room_arg = 3 THEN 12 ELSE room_arg)
        /\ wr[s].pc # "dead" => conn[s].out # <<>>

\* the session a fail-over opened on host 1 for the room asked for by its
\* short id: Entering was written, then the writer sent its heartbeat
C9_Witness ==
    /\ room_arg = 3 /\ conn[2].host = 1 /\ conn[2].out # <<>>
    /\ writer = 2 /\ wr[2].pc = "sleep" /\ conn[2].st = "up"

(***************************************************************************)
(* SpecSupervisor: the fail_over_task loop fed through its channel.  Which *)
(* task sends a report, and when, is left open: reports enter the channel  *)
(* at any tick, as many as MaxK.                                           *)
(***************************************************************************)
\* fail_tx.send((Instant::now(), e)) by some task
Inject ==
    /\ stream = "alive"
    /\ hist.k + Len(failCh) < MaxK
    /\ CanSendNow
    /\ failCh' = Append(failCh, Report(<< "task", 0 >>))
    /\ UNCHANGED << supVars, conn, rd, wr, sendQ, distVars, netVars, histVars >>

InitSupervisor == InitOpen(3)
NextSupervisor ==
    Inject \/ Tick \/ SupRecvSeen \/ DialOk \/ DialFail \/ EnterOk \/ EnterFail
SpecSupervisor == InitSupervisor /\ [][NextSupervisor]_vars

\* C1: after k reports, each more than 100 ms after the one before, srv_index
\* is (k - 1) mod the number of hosts, whatever became of the connects
C1_Rotation ==
    hist.k \in 1 .. MaxK /\ hist.spaced => srv_index = (hist.k - 1) % NumHosts

\* three spaced reports, the index at (3 - 1) mod the number of hosts, and
\* neither fail-over could open a session: the first one is still held
C1_Witness ==
    /\ hist.k = 3 /\ hist.spaced /\ srv_index = 2 % NumHosts
    /\ sup.pc = "idle" /\ writer = 1 /\ wr[1].pc = "run"

\* a step in which the supervisor takes a report from the channel
Takes == sup.pc = "idle" /\ failCh # <<>> /\ failCh' = Tail(failCh)

\* C2: the first report, and a report at most 100 ms after the recorded one,
\* change last_failed to the report's Instant and nothing else of the
\* supervisor or the session; reports at 0 ms and 50 ms leave srv_index 0 and
\* no connect under way, and the report at 200 ms makes srv_index 1 and
\* starts a connect, which goes to the host at srv_index
C2_Debounce ==
    /\ [][Takes /\ (last_failed = None \/ Diff(Head(failCh).at, last_failed) <= Debounce) =>
             /\ last_failed' = Head(failCh).at
             /\ UNCHANGED << srv_index, sup, writer, reader, conn, rd, wr >>]_vars
    /\ [](hist.scen \in { 1, 2 } => srv_index = 0 /\ sup.pc = "idle" /\ writer = 1)
    /\ [][hist.scen = 2 /\ hist'.scen = 3 => srv_index' = 1 % NumHosts /\ sup'.pc = "dial"]_vars
    /\ [](sup.pc = "enter" => conn[sup.pend].host = srv_index /\ conn[sup.pend].st = "up")

\* after reports at 0, 50 and 200 ms the connection to host 1 is open
C2_Witness ==
    /\ hist.scen = 3 /\ hist.k = 3 /\ sup.pc = "enter" /\ sup.pend = 2
    /\ conn[2].host = 1 /\ srv_index = 1

(***************************************************************************)
(* FairSpec: a running client whose connections break, one way or the      *)
(* other, whose connects fail or succeed, and whose handle may be dropped. *)
(* Every task that can take a step takes it in the end, a connect comes to *)
(* an end, and time goes on; the network owes nothing.                     *)
(***************************************************************************)
FairReadEnd == \E s \in Slots : ReaderEnd(s)
FairBreaks == \E s \in Slots, kind \in { "error", "ended" } : Break(s, kind)

InitFair == InitOpen(3)
NextFair ==
    \/ SupRecv \/ DialOk \/ DialFail \/ EnterOk \/ EnterFail
    \/ Beat \/ Unblock \/ ReadErr \/ FairReadEnd
    \/ FairBreaks \/ DropHandle \/ Pause \/ Jump
FairSpec ==
    /\ InitFair /\ [][NextFair]_vars
    /\ WF_vars(SupRecv) /\ WF_vars(Unblock)
    /\ WF_vars(DialOk \/ DialFail) /\ WF_vars(EnterOk \/ EnterFail)
    /\ \A s \in Slots : WF_vars(WriterBeat(s)) /\ WF_vars(ReaderErr(s))
    /\ WF_vars(Jump)

\* the connection of the session held is broken
LiveBroken == writer # None /\ conn[writer].st \in { "error", "ended" }

\* C5 as claimed: once the DanmakuStream is dropped, the supervisor and the
\* session tasks stop in the end
C5_AsClaimed ==
    stream = "dropped" ~>
        (sup.pc = "off" /\ \A s \in Slots : rd[s].pc \in { "dead", "done" } /\ wr[s].pc = "dead")

\* C10: while the connection of the session held is broken, a report reaches
\* the supervisor, and whenever the supervisor waits for reports it gets to
\* a fail-over's connect in the end, after a connect that failed as well; the
\* loop of the supervisor never ends while the stream is alive
C10_Recovers ==
    /\ (LiveBroken /\ last_failed = None) ~> (last_failed # None)
    /\ (LiveBroken /\ sup.pc = "idle") ~> (sup.pc = "dial")
    /\ [](stream = "alive" => sup.pc \in { "idle", "dial", "enter" })

\* the second fail-over connects while the first session, its connection
\* broken, is still the one held: the first fail-over's connect failed
C10_Witness ==
    /\ sup.pc = "dial" /\ LiveBroken /\ writer = 1 /\ srv_index = 2 % NumHosts
    /\ stream = "alive"


(***************************************************************************)
(* SpecWire: the codec called on its own.  from_bytes is given a byte      *)
(* string, and what it returns is written back with to_bytes; to_bytes is  *)
(* given a packet as its constructor left it.                              *)
(***************************************************************************)
\* the header fields as they stand on the wire, then the bytes that follow
Raw(pkt_len, hdr_len, pv, op, seq, tail) ==
    << 0, 0, 0, pkt_len, 0, hdr_len, 0, pv, 0, 0, 0, op >>
        \o << seq, seq, seq, seq >> \o tail

WireBodies == UNION { [1 .. n -> { 0, 255 }] : n \in 0 .. MaxBody }

\* each a single packet in full, its hdr_len 16 and its pkt_len its length
WellFormedFrames ==
    { Raw(16 + Len(b), 16, pv, op, seq, b) :
        pv \in 0 .. 3, op \in { 2, 3, 5, 7, 8 }, seq \in { 0, 1, 127 }, b \in WireBodies }

\* headers of every kind, followed by more or fewer bytes than they announce
OddFrames ==
    { Raw(pl, hl, pv, op, 1, b) :
        pl \in { 0, 4, 15, 16, 17, 20, 24 }, hl \in { 0, 15, 16, 20 },
        pv \in { 0, 3, 4 }, op \in { 2, 4, 9 }, b \in WireBodies }

\* frames cut short inside the header
CutFrames == { Take(Raw(16, 16, 0, 5, 1, <<>>), n) : n \in { 0, 7, 8, 11, 12, 15 } }

WireInputs == WellFormedFrames \cup OddFrames \cup CutFrames

\* packets as the constructors leave them, and a JSON packet whose pkt_len
\* was not kept up with its data
WirePkts ==
    { new_heartbeat }
        \cup { new_json(b, op) : b \in WireBodies, op \in { "Entering", "HeartBeat" } }
        \cup { [new_json(b, "Entering") EXCEPT !.pkt_len = n] : b \in WireBodies, n \in { 0, 16, 99 } }

WireStart ==
    { [NoCodec EXCEPT !.pc = "input", !.in = b] : b \in WireInputs }
        \cup { [NoCodec EXCEPT !.pc = "packet", !.pkt = p] : p \in WirePkts }

\* WsPacket::from_bytes((bytes, 0))
WireDecode ==
    /\ codec.pc = "input"
    /\ codec' = [codec EXCEPT !.pc = "decoded", !.dec = from_bytes(codec.in, 0)]
    /\ UNCHANGED << supVars, taskVars, distVars, netVars, hist, host_list >>

\* to_bytes of the packet from_bytes returned
WireEncode ==
    /\ codec.pc = "decoded"
    /\ codec.dec.status = "ok"
    /\ codec' = [codec EXCEPT !.pc = "encoded", !.pkt = codec.dec.pkt,
                              !.out = to_bytes(codec.dec.pkt)]
    /\ UNCHANGED << supVars, taskVars, distVars, netVars, hist, host_list >>

\* to_bytes of a packet that was built, not decoded
WireWrite ==
    /\ codec.pc = "packet"
    /\ codec' = [codec EXCEPT !.pc = "written", !.out = to_bytes(codec.pkt)]
    /\ UNCHANGED << supVars, taskVars, distVars, netVars, hist, host_list >>

InitWire == NotOpened /\ codec \in WireStart /\ host_list = HostList(NumHosts)
NextWire == WireDecode \/ WireEncode \/ WireWrite
SpecWire == InitWire /\ [][NextWire]_vars

\* C11 as claimed: the heartbeat is written as the 16 bytes of a frame whose
\* pkt_len field is 16, and to_bytes writes hdr_len + data.len() as pkt_len
\* whatever pkt_len the packet holds
C11_AsClaimed ==
    codec.pc = "written" =>
        /\ (codec.pkt = new_heartbeat =>
                codec.out = << 0, 0, 0, 16, 0, 16, 0, 0, 0, 0, 0, 2, 0, 0, 0, 1 >>)
        /\ ReadU32(codec.out, 1) = codec.pkt.hdr_len + Len(codec.pkt.data)

\* the discriminants ProtoVer and Operation know
KnownProtoVer(b) == ReadU16(b, 7) \in 0 .. 3
KnownOperation(b) == ReadU32(b, 9) \in { 2, 3, 5, 7, 8 }

\* C12 as claimed: from_bytes returns an error, and never panics, when the
\* frame has hdr_len < 16, pkt_len < hdr_len, fewer than pkt_len bytes or an
\* unknown discriminant; proto_ver 3 is read as Unknown; a packet it returns
\* has hdr_len 16 and pkt_len - hdr_len bytes of data
C12_AsClaimed ==
    codec.pc = "decoded" =>
        LET b == codec.in
            d == codec.dec
        IN  /\ d.status # "panic"
            /\ (Len(b) < 16 => d.status = "err")
            /\ (Len(b) >= 16 /\ ( \/ ReadU16(b, 5) < 16
                                  \/ ReadU32(b, 1) < ReadU16(b, 5)
                                  \/ Len(b) < ReadU32(b, 1)
                                  \/ ~KnownProtoVer(b)
                                  \/ ~KnownOperation(b) ) => d.status = "err")
            /\ (d.status = "ok" /\ ReadU16(b, 7) = 3 => d.pkt.proto_ver = "Unknown")
            /\ (d.status = "ok" => /\ d.pkt.hdr_len = 16
                                   /\ Len(d.pkt.data) = d.pkt.pkt_len - d.pkt.hdr_len)

\* a byte string that is one packet in full: hdr_len 16, pkt_len its length,
\* discriminants the enums know
SinglePacket(b) ==
    /\ Len(b) >= 16
    /\ ReadU32(b, 1) = Len(b)
    /\ ReadU16(b, 5) = 16
    /\ KnownProtoVer(b)
    /\ KnownOperation(b)

\* C13: from_bytes of a byte string that is one well-formed packet succeeds
\* and leaves no bytes, and to_bytes of the packet it returns is the byte
\* string again
C13_RoundTrip ==
    SinglePacket(codec.in) =>
        /\ (codec.pc \in { "decoded", "encoded" } =>
                codec.dec.status = "ok" /\ codec.dec.rest = <<>>)
        /\ (codec.pc = "encoded" => codec.out = codec.in)

\* a packet of version Unknown with a body of two bytes, decoded and written
C13_Witness ==
    /\ codec.pc = "encoded"
    /\ SinglePacket(codec.in)
    /\ Len(codec.in) = 18
    /\ codec.pkt.proto_ver = "Unknown"
    /\ codec.pkt.operation = "EnteringReply"

(***************************************************************************)
(* The failure reports of the session tasks and the handles held           *)
(***************************************************************************)
\* the report of task t enters the channel in this step
Reported(t) == Len(failCh') > Len(failCh) /\ failCh'[Len(failCh')].by = t

\* C14 as claimed: a writer whose heartbeat failed is over once its report
\* is in the channel; it neither reports nor writes again
C14_AsClaimed ==
    [][\A s \in Slots : Reported(WriterTask(s)) => wr'[s].pc = "dead"]_vars

\* the reports of task t in the channel and waiting for it
ReportsOf(t) ==
    Cardinality({ i \in 1 .. Len(failCh \o sendQ) : (failCh \o sendQ)[i].by = t })

\* C15 as claimed, under SpecCodec: a reader that met an error has sent one
\* report and is over, and sends no packet afterwards; of a container whose
\* inner decode failed it has sent the packets before the failure, in order,
\* and of one that did not unzip it has sent nothing
C15_AsClaimed ==
    /\ [](\A s \in Slots : cur[s].failed # "" =>
            /\ rd[s].pc \in { "done", "blocked" }
            /\ ReportsOf(ReaderTask(s)) = 1
            /\ (cur[s].failed = "zlib" => cur[s].fwd = <<>>)
            /\ (cur[s].failed = "decode" => cur[s].fwd = cur[s].expect))
    /\ [][\A s \in Slots :
            /\ (rd[s].pc = "next" /\ conn[s].st = "error" /\ rd'[s] # rd[s] =>
                    Reported(ReaderTask(s)) /\ rd'[s].pc = "done")
            /\ (cur[s].failed # "" => ~(Len(emitted') > Len(emitted) /\ lastPushBy' = s))]_vars

\* the task is one of the two the supervisor holds the handles of
Held(t) == (t[1] = "writer" /\ t[2] = writer) \/ (t[1] = "reader" /\ t[2] = reader)

\* C16 as claimed, under Spec: the report that makes the supervisor fail
\* over was sent by a task of the session it holds at that moment
C16_AsClaimed ==
    [][sup.pc = "idle" /\ sup'.pc = "dial" => Held(Head(failCh).by)]_vars

(***************************************************************************)
(* SpecLonely: the client with receivers that are dropped and none that    *)
(* subscribes again; every connect succeeds                                *)
(***************************************************************************)
LonelyDropRx == \E u \in Subs : DropRx(u)

InitLonely == InitOpen(3)
NextLonely ==
    \/ LonelyDropRx \/ Deliver \/ Inner \/ ReadErr
    \/ SupRecv \/ DialOk \/ EnterOk
    \/ Beat \/ Unblock \/ Breaks \/ Jump
SpecLonely == InitLonely /\ [][NextLonely]_vars

\* C17: pkt_tx.send takes a packet only while some receiver is alive; a send
\* that finds none is an error to the reader, which sends nothing more,
\* reports to the supervisor (or waits for room in the channel, or is
\* dropped there if it was aborted) and is over
C17_NoReceiver ==
    /\ [][Len(emitted') > Len(emitted) => RxCnt > 0]_vars
    /\ [][\A s \in Slots : cur[s].failed # "send" /\ cur'[s].failed = "send" =>
            /\ RxCnt = 0
            /\ emitted' = emitted
            /\ \/ Reported(ReaderTask(s)) /\ rd'[s].pc = "done"
               \/ sendQ' = Append(sendQ, Report(ReaderTask(s))) /\ rd'[s].pc = "blocked"
               \/ rd[s].aborted /\ rd'[s].pc = "dead"]_vars
    /\ [](\A s \in Slots : cur[s].failed = "send" => rd[s].pc \in { "done", "blocked", "dead" })

\* the supervisor fails over on the report of the reader of session 2, whose
\* connection is up and whose only trouble was a send with no receiver
C17_Witness ==
    /\ sup.pc = "dial" /\ writer = 2 /\ reader = 2
    /\ conn[2].st = "up" /\ RxCnt = 0
    /\ cur[2].failed = "send" /\ rd[2].pc = "done"
    /\ failCh = <<>> /\ sendQ = <<>>

\* the slots whose reader, or whose writer, has not returned and was not dropped
LiveReaders == { s \in Slots : rd[s].pc \in { "next", "inner", "blocked" } }
LiveWriters == { s \in Slots : wr[s].pc # "dead" }

\* C18 as claimed, under Spec: a task that was spawned and not aborted is
\* the one whose handle the supervisor holds, and no two readers and no two
\* writers are alive at once
C18_AsClaimed ==
    /\ \A s \in LiveWriters : writer = s
    /\ \A s \in LiveReaders : rd[s].aborted \/ reader = s
    /\ Cardinality(LiveReaders) <= 1
    /\ Cardinality(LiveWriters) <= 1

(***************************************************************************)
(* SpecHosts: the supervisor, as under SpecSupervisor, with a host_list of *)
(* one host or more                                                        *)
(***************************************************************************)
InitHosts ==
    \E n \in 1 .. NumHosts : Opened(3) /\ codec = NoCodec /\ host_list = HostList(n)
NextHosts ==
    \/ Inject \/ Tick \/ SupRecvSeen
    \/ DialOk \/ DialFail \/ EnterOk \/ EnterFail
SpecHosts == InitHosts /\ [][NextHosts]_vars

\* C19: srv_index is always a place in host_list, and 0 when there is one
\* host; it changes only when a fail-over begins, by one place and around
\* the end of the list; a connect leaves it alone, failed or not, and opens
\* its connection to the host at srv_index
C19_InRange ==
    /\ [](srv_index \in 0 .. Len(host_list) - 1)
    /\ [](Len(host_list) = 1 => srv_index = 0)
    /\ [][sup.pc = "idle" /\ sup'.pc = "dial" =>
            srv_index' = (srv_index + 1) % Len(host_list)]_vars
    /\ [][srv_index' # srv_index => sup.pc = "idle" /\ sup'.pc = "dial"]_vars
    /\ [][sup.pc \in { "dial", "enter" } => srv_index' = srv_index]_vars
    /\ [][sup.pc = "dial" /\ sup'.pc = "enter" =>
            conn'[sup'.pend].host = host_list[srv_index + 1]]_vars

\* with one host, the second fail-over has opened a connection to the host
\* of the running session
C19_Witness ==
    /\ Len(host_list) = 1 /\ srv_index = 0
    /\ hist.k = 3 /\ hist.spaced
    /\ sup.pc = "enter" /\ sup.pend # writer
    /\ conn[sup.pend].st = "up" /\ conn[sup.pend].host = conn[writer].host

(***************************************************************************)
(* The failure channel under FairSpec                                      *)
(***************************************************************************)
\* task t waits in fail_tx.send for room in the channel
Waiting(t) == \E i \in 1 .. Len(sendQ) : sendQ[i].by = t

=============================================================================
